---- MODULE Spec2Model ----
(***************************************************************************)
(* Model of the dungeon console program (src/main.cpp): NPC registry,      *)
(* factory, text persistence, battle visitor, observers and the command    *)
(* loop of main().                                                         *)
(*                                                                         *)
(* Text is modelled at character level: a token (a maximal run of          *)
(* non-whitespace characters) is a sequence of one-character strings, and  *)
(* a stream (std::cin, a file) is a sequence of tokens plus its failbit.   *)
(* operator>> and operator<< are modelled by what they do on characters.   *)
(***************************************************************************)
EXTENDS Integers, Sequences, FiniteSets, TLC

VARIABLES
    npcs,      \* Dungeon::npcs, registry order
    logFile,   \* FileObserver::logFile: whether log.txt could be opened, and
               \* the lines appended to it
    files,     \* the file system seen by save/load: path -> contents
    cin,       \* std::cin: unread tokens already supplied, failbit, end of input
    pc,        \* position of main(): "loop" (at the while condition) or "done"
    command,   \* main()'s std::string command
    locals,    \* block locals of main(): the strings of the last dispatched
               \* branch, and what the slots of x, y and range hold
    out,       \* what the last loop iteration sent to std::cout after the
               \* prompt; it reaches the device unless cout is "bad"
    cout       \* std::cout: "good"; "full" (the device takes nothing more:
               \* the next flush fails); "bad" (a flush has failed: badbit)

vars == <<npcs, logFile, files, cin, pc, command, locals, out, cout>>

----------------------------------------------------------------------------
(* Bounds of the model *)

MaxNpcs == 3

----------------------------------------------------------------------------
(* Characters, tokens, integer text conversion *)

Digits == <<"0", "1", "2", "3", "4", "5", "6", "7", "8", "9">>

IsDigit(c) == c \in {"0", "1", "2", "3", "4", "5", "6", "7", "8", "9"}

DigitVal(c) ==
    CASE c = "0" -> 0 [] c = "1" -> 1 [] c = "2" -> 2 [] c = "3" -> 3
      [] c = "4" -> 4 [] c = "5" -> 5 [] c = "6" -> 6 [] c = "7" -> 7
      [] c = "8" -> 8 [] c = "9" -> 9

RECURSIVE FirstNonDigit(_, _, _)
\* first index of lo .. hi where s does not hold a digit, hi + 1 when it
\* holds digits only (found by halving, so that long tokens stay shallow)
FirstNonDigit(s, lo, hi) ==
    IF lo > hi THEN lo
    ELSE IF lo = hi THEN (IF IsDigit(s[lo]) THEN hi + 1 ELSE lo)
    ELSE LET mid == (lo + hi) \div 2
             l   == FirstNonDigit(s, lo, mid)
         IN  IF l <= mid THEN l ELSE FirstNonDigit(s, mid + 1, hi)

\* first index >= i of s that does not hold a digit
DigitsEnd(s, i) == FirstNonDigit(s, i, Len(s))

RECURSIVE FirstNonZero(_, _, _)
\* first index of lo .. hi where s does not hold the digit 0, hi + 1 when
\* it holds zeros only
FirstNonZero(s, lo, hi) ==
    IF lo > hi THEN lo
    ELSE IF lo = hi THEN (IF s[lo] = "0" THEN hi + 1 ELSE lo)
    ELSE LET mid == (lo + hi) \div 2
             l   == FirstNonZero(s, lo, mid)
         IN  IF l <= mid THEN l ELSE FirstNonZero(s, mid + 1, hi)

\* the range of int
INT_MAX == 2147483647
INT_MIN == (0 - INT_MAX) - 1

RECURSIVE DigitsVal(_, _, _, _)
\* the int spelled by the decimal digits s[i..j-1] after the sign neg.
\* ovf: the number does not fit in int; val is then INT_MAX or INT_MIN.
DigitsVal(s, i, j, neg) ==
    IF j <= i THEN [ovf |-> FALSE, val |-> 0]
    ELSE LET a == DigitsVal(s, i, j - 1, neg)
             d == DigitVal(s[j - 1])
         IN  IF a.ovf THEN a
             ELSE IF neg
             THEN IF a.val < 0 - ((IF d = 0 THEN INT_MAX
                                   ELSE INT_MAX - (d - 1)) \div 10)
                  THEN [ovf |-> TRUE, val |-> INT_MIN]
                  ELSE [ovf |-> FALSE, val |-> 10 * a.val - d]
             ELSE IF a.val > (INT_MAX - d) \div 10
                  THEN [ovf |-> TRUE, val |-> INT_MAX]
                  ELSE [ovf |-> FALSE, val |-> 10 * a.val + d]

\* num_get for int on the characters of one token: optional sign, decimal
\* digits; stops at the first other character.  ok = FALSE when no digit
\* was found (val, the value stored, is then 0) or when the number does not
\* fit in int (val is then INT_MAX or INT_MIN and every digit is consumed).
\* rest = characters not consumed.
ParseInt(tok) ==
    LET signed == Len(tok) >= 1 /\ tok[1] \in {"-", "+"}
        from   == IF signed THEN 2 ELSE 1
        to     == DigitsEnd(tok, from)
        neg    == signed /\ tok[1] = "-"
        nz     == FirstNonZero(tok, from, to - 1)
        \* more than ten digits after the leading zeros never fit
        acc    == IF to - nz > 10
                  THEN [ovf |-> TRUE, val |-> IF neg THEN INT_MIN ELSE INT_MAX]
                  ELSE DigitsVal(tok, nz, to, neg)
    IN  IF to = from
        THEN [ok |-> FALSE, val |-> 0, rest |-> SubSeq(tok, from, Len(tok))]
        ELSE [ok |-> ~acc.ovf, val |-> acc.val,
              rest |-> SubSeq(tok, to, Len(tok))]

\* A double is kept in ten-thousandths: the integer v stands for
\* v / Scale.  Two distances between places of the 500 x 500 square differ
\* by more than 7 / Scale, so between v / Scale and (v + 1) / Scale there is
\* at most one distance.
ScaleDigits == 4
Scale == 10000

\* Every distance between two places of the 500 x 500 square is below
\* RangeCap; a double of magnitude RangeCap or more is kept as RangeCap.
RangeCap == 1000

\* decimal exponents are kept up to ExpCap
ExpCap == 100000

\* The decimal digits of 2^1024 - 2^970, half way between the largest
\* double and 2^1024: a number that large is converted to infinity.
HugeDigits ==
    <<1, 7, 9, 7, 6, 9, 3, 1, 3, 4, 8, 6, 2, 3, 1, 5, 8, 0, 7, 9, 3, 7, 2, 8,
      9, 7, 1, 4, 0, 5, 3, 0, 3, 4, 1, 5, 0, 7, 9, 9, 3, 4, 1, 3, 2, 7, 1, 0,
      0, 3, 7, 8, 2, 6, 9, 3, 6, 1, 7, 3, 7, 7, 8, 9, 8, 0, 4, 4, 4, 9, 6, 8,
      2, 9, 2, 7, 6, 4, 7, 5, 0, 9, 4, 6, 6, 4, 9, 0, 1, 7, 9, 7, 7, 5, 8, 7,
      2, 0, 7, 0, 9, 6, 3, 3, 0, 2, 8, 6, 4, 1, 6, 6, 9, 2, 8, 8, 7, 9, 1, 0,
      9, 4, 6, 5, 5, 5, 5, 4, 7, 8, 5, 1, 9, 4, 0, 4, 0, 2, 6, 3, 0, 6, 5, 7,
      4, 8, 8, 6, 7, 1, 5, 0, 5, 8, 2, 0, 6, 8, 1, 9, 0, 8, 9, 0, 2, 0, 0, 0,
      7, 0, 8, 3, 8, 3, 6, 7, 6, 2, 7, 3, 8, 5, 4, 8, 4, 5, 8, 1, 7, 7, 1, 1,
      5, 3, 1, 7, 6, 4, 4, 7, 5, 7, 3, 0, 2, 7, 0, 0, 6, 9, 8, 5, 5, 5, 7, 1,
      3, 6, 6, 9, 5, 9, 6, 2, 2, 8, 4, 2, 9, 1, 4, 8, 1, 9, 8, 6, 0, 8, 3, 4,
      9, 3, 6, 4, 7, 5, 2, 9, 2, 7, 1, 9, 0, 7, 4, 1, 6, 8, 4, 4, 4, 3, 6, 5,
      5, 1, 0, 7, 0, 4, 3, 4, 2, 7, 1, 1, 5, 5, 9, 6, 9, 9, 5, 0, 8, 0, 9, 3,
      0, 4, 2, 8, 8, 0, 1, 7, 7, 9, 0, 4, 1, 7, 4, 4, 9, 7, 7, 9, 2>>

\* The first digits, from the first that is not 0, of 2^-1075 =
\* 5^1075 / 10^1075, half of the smallest double above 0: a number that
\* small is converted to zero.
TinyDigits ==
    <<2, 4, 7, 0, 3, 2, 8, 2, 2, 9, 2, 0, 6, 2, 3, 2, 7, 2, 0, 8, 8, 2, 8, 4,
      3, 9, 6, 4, 3, 4, 1, 1, 0, 6, 8, 6, 1, 8, 2, 5, 2, 9, 9, 0, 1, 3, 0, 7,
      1, 6, 2, 3, 8, 2, 2, 1, 2, 7, 9, 2, 8, 4, 1, 2, 5, 0, 3, 3, 7, 7, 5, 3,
      6, 3, 5, 1, 0, 4, 3, 7, 5, 9, 3, 2, 6, 4, 9, 9, 1, 8, 1, 8, 0, 8, 1, 7,
      9, 9, 6, 1, 8, 9, 8, 9, 8, 2, 8, 2, 3, 4, 7, 7, 2, 2, 8, 5, 8, 8, 6, 5,
      4, 6, 3, 3, 2, 8, 3, 5, 5, 1, 7, 7, 9, 6, 9, 8, 9, 8, 1, 9, 9, 3, 8, 7,
      3, 9, 8, 0, 0, 5, 3, 9, 0, 9, 3, 9, 0, 6, 3, 1, 5, 0, 3, 5, 6, 5, 9, 5,
      1, 5, 5, 7, 0, 2, 2, 6, 3, 9, 2, 2, 9, 0, 8, 5, 8, 3, 9, 2, 4, 4, 9, 1,
      0, 5, 1, 8, 4, 4, 3, 5, 9, 3, 1, 8, 0, 2, 8, 4, 9, 9, 3, 6, 5, 3, 6, 1,
      5, 2, 5, 0, 0, 3, 1, 9, 3, 7, 0, 4, 5, 7, 6, 7, 8, 2, 4, 9, 2, 1, 9, 3,
      6, 5, 6, 2, 3, 6, 6, 9, 8, 6, 3, 6, 5, 8, 4, 8, 0, 7, 5, 7, 0, 0, 1, 5,
      8, 5, 7, 6, 9, 2, 6, 9, 9, 0, 3, 7, 0, 6, 3, 1, 1, 9, 2, 8, 2, 7, 9, 5,
      5, 8, 5, 5, 1, 3, 3, 2, 9, 2, 7, 8, 3, 4, 3, 3, 8, 4, 0, 9, 3, 5, 1, 9,
      7, 8, 0, 1, 5, 5, 3, 1, 2, 4, 6, 5, 9, 7, 2, 6, 3, 5, 7, 9, 5, 7, 4, 6,
      2, 2, 7, 6, 6, 4, 6, 5, 2, 7, 2, 8, 2, 7, 2, 2, 0, 0, 5, 6, 3, 7, 4, 0,
      0, 6, 4, 8, 5, 4, 9, 9, 9, 7, 7, 0, 9, 6, 5, 9, 9, 4, 7, 0, 4, 5, 4, 0,
      2, 0, 8, 2, 8, 1, 6, 6, 2, 2, 6, 2, 3, 7, 8, 5, 7, 3, 9, 3, 4, 5, 0, 7,
      3, 6, 3, 3, 9, 0, 0, 7, 9, 6, 7, 7, 6, 1, 9, 3, 0, 5, 7, 7, 5, 0, 6, 7,
      4, 0, 1, 7, 6, 3, 2, 4, 6, 7, 3, 6, 0, 0, 9, 6, 8, 9, 5, 1, 3, 4, 0, 5,
      3, 5, 5, 3, 7, 4, 5, 8, 5, 1, 6, 6, 6, 1, 1, 3, 4, 2, 2, 3, 7, 6, 6, 6,
      7, 8, 6, 0, 4, 1, 6, 2, 1, 5, 9, 6, 8, 0, 4, 6, 1, 9, 1, 4, 4, 6, 7, 2,
      9, 1, 8, 4, 0, 3, 0, 0, 5, 3, 0, 0, 5, 7, 5, 3, 0, 8, 4, 9, 0, 4, 8, 7,
      6, 5, 3, 9, 1, 7, 1, 1, 3, 8, 6, 5, 9, 1, 6, 4, 6, 2, 3, 9, 5, 2, 4, 9,
      1, 2, 6, 2, 3, 6, 5, 3, 8, 8, 1, 8, 7, 9, 6, 3, 6, 2, 3, 9, 3, 7, 3, 2,
      8, 0, 4, 2, 3, 8, 9, 1, 0, 1, 8, 6, 7, 2, 3, 4, 8, 4, 9, 7, 6, 6, 8, 2,
      3, 5, 0, 8, 9, 8, 6, 3, 3, 8, 8, 5, 8, 7, 9, 2, 5, 6, 2, 8, 3, 0, 2, 7,
      5, 5, 9, 9, 5, 6, 5, 7, 5, 2, 4, 4, 5, 5, 5, 0, 7, 2, 5, 5, 1, 8, 9, 3,
      1, 3, 6, 9, 0, 8, 3, 6, 2, 5, 4, 7, 7, 9, 1, 8, 6, 9, 4, 8, 6, 6, 7, 9,
      9, 4, 9, 6, 8, 3, 2, 4, 0, 4, 9, 7, 0, 5, 8, 2, 1, 0, 2, 8, 5, 1, 3, 1,
      8, 5, 4, 5, 1, 3, 9, 6, 2, 1, 3, 8, 3, 7, 7, 2, 2, 8, 2, 6, 1, 4, 5, 4,
      3, 7, 6, 9, 3, 4, 1, 2, 5, 3, 2, 0, 9, 8, 5, 9, 1, 3, 2, 7, 6, 6, 7, 2,
      3, 6, 3, 2, 8, 1, 2, 5>>

\* 2^-1075 = 0.TinyDigits * 10^TinyPoint
TinyPoint == Len(TinyDigits) - 1075

RECURSIVE CompareDigits(_, _, _, _, _)
\* the sign (-1, 0, 1) of the first difference D[off + i] - T[i] for i in
\* lo .. hi, 0 when there is none; D of characters and T of numbers, both
\* continued with zeros
CompareDigits(D, off, T, lo, hi) ==
    IF lo > hi THEN 0
    ELSE IF lo = hi
    THEN LET d == IF off + lo <= Len(D) THEN DigitVal(D[off + lo]) ELSE 0
             t == IF lo <= Len(T) THEN T[lo] ELSE 0
         IN  IF d > t THEN 1 ELSE IF d < t THEN 0 - 1 ELSE 0
    ELSE LET mid == (lo + hi) \div 2
             c   == CompareDigits(D, off, T, lo, mid)
         IN  IF c # 0 THEN c ELSE CompareDigits(D, off, T, mid + 1, hi)

\* the sign of 0.D[first..] - 0.T
Compare(D, first, T) ==
    CompareDigits(D, first - 1, T, 1,
                  IF Len(D) - first + 1 > Len(T) THEN Len(D) - first + 1
                  ELSE Len(T))

RECURSIVE SatDigits(_, _, _, _)
\* the number spelled by the digits s[i..j-1], or cap when it is cap or more
SatDigits(s, i, j, cap) ==
    IF j <= i THEN 0
    ELSE LET a == SatDigits(s, i, j - 1, cap)
         IN  IF a >= cap \/ 10 * a + DigitVal(s[j - 1]) >= cap THEN cap
             ELSE 10 * a + DigitVal(s[j - 1])

\* the same, for a cap of at most nine digits, past the leading zeros:
\* more than nine digits spell cap or more
SatNat(s, i, j, cap) ==
    LET nz == FirstNonZero(s, i, j - 1)
    IN  IF j - nz > 9 THEN cap ELSE SatDigits(s, nz, j, cap)

RECURSIVE Scaled(_, _, _, _, _)
\* acc followed by the digits D[k..K] (zeros beyond the end of D), or cap
\* when that is cap or more
Scaled(D, k, K, acc, cap) ==
    IF acc >= cap THEN cap
    ELSE IF k > K THEN acc
    ELSE IF k > Len(D) /\ acc = 0 THEN 0
    ELSE Scaled(D, k + 1, K,
                10 * acc + (IF k <= Len(D) THEN DigitVal(D[k]) ELSE 0), cap)

\* num_get for double on the characters of one token: optional sign,
\* digits, at most one point, and after a digit an exponent (e or E,
\* optional sign, digits); it stops at the first character that does not
\* fit.  The operators below follow it from left to right; from, intEnd,
\* fracEnd, expEnd are the indices where the mantissa starts and where the
\* whole part, the mantissa and the exponent end.

\* tok has a point at intEnd
HasPoint(tok, intEnd) == intEnd <= Len(tok) /\ tok[intEnd] = "."

\* the mantissa has a digit
HasMantissa(tok, from, intEnd, fracEnd) ==
    intEnd > from \/ (HasPoint(tok, intEnd) /\ fracEnd > intEnd + 1)

\* an exponent follows the mantissa
HasExponent(tok, from, intEnd, fracEnd) ==
    /\ HasMantissa(tok, from, intEnd, fracEnd)
    /\ fracEnd <= Len(tok)
    /\ tok[fracEnd] \in {"e", "E"}

\* the exponent has a sign
ExpSigned(tok, fracEnd) ==
    fracEnd + 1 <= Len(tok) /\ tok[fracEnd + 1] \in {"-", "+"}

\* index of the first digit of the exponent
ExpStart(tok, fracEnd) ==
    IF ExpSigned(tok, fracEnd) THEN fracEnd + 2 ELSE fracEnd + 1

\* the digits of the mantissa without the point
MantissaDigits(tok, from, intEnd, fracEnd) ==
    SubSeq(tok, from, intEnd - 1)
    \o (IF HasPoint(tok, intEnd) THEN SubSeq(tok, intEnd + 1, fracEnd - 1)
        ELSE <<>>)

\* the decimal exponent written after the mantissa, 0 when there is none
Exponent(tok, fracEnd, expEnd, hasE) ==
    IF ~hasE THEN 0
    ELSE IF ExpSigned(tok, fracEnd) /\ tok[fracEnd + 1] = "-"
    THEN 0 - SatNat(tok, ExpStart(tok, fracEnd), expEnd, ExpCap)
    ELSE SatNat(tok, ExpStart(tok, fracEnd), expEnd, ExpCap)

\* D[1..point] . D[point+1..] with first the index of its first digit that
\* is not 0: the number is 0.D[first..] * 10^(point - first + 1).
\* It is too large for a double (strtod gives HUGE_VAL).
TooBig(D, point, first) ==
    /\ first <= Len(D)
    /\ \/ point - first + 1 > Len(HugeDigits)
       \/ /\ point - first + 1 = Len(HugeDigits)
          /\ Compare(D, first, HugeDigits) >= 0

\* It is zero or so small that strtod gives zero.
Vanishes(D, point, first) ==
    \/ first > Len(D)
    \/ point - first + 1 < TinyPoint
    \/ /\ point - first + 1 = TinyPoint
       /\ Compare(D, first, TinyDigits) <= 0

\* the result of the conversion.  val is the value in ten-thousandths, cut
\* towards zero for a value >= 0 and away from zero below 0; exact = FALSE
\* when digits were cut: the double lies from val / Scale up to
\* (val + 1) / Scale, or is RangeCap or more.
\* ok = FALSE when what was consumed has no mantissa digit or an exponent
\* without digits (0 is stored) or is too large for a double (the largest
\* double is stored, with its sign).  A number that vanishes is stored as
\* zero, with its sign: 0 and -0 compare alike.
DoubleResult(neg, wellFormed, tooBig, vanishes, mag, dropped, rest) ==
    IF ~wellFormed
    THEN [ok |-> FALSE, val |-> 0, exact |-> TRUE, rest |-> rest]
    ELSE IF tooBig
    THEN [ok |-> FALSE,
          val |-> IF neg THEN 0 - RangeCap * Scale ELSE RangeCap * Scale,
          exact |-> FALSE, rest |-> rest]
    ELSE IF vanishes
    THEN [ok |-> TRUE, val |-> 0, exact |-> TRUE, rest |-> rest]
    ELSE [ok |-> TRUE,
          val |-> IF neg
                  THEN 0 - (mag + (IF dropped /\ mag < RangeCap * Scale
                                   THEN 1 ELSE 0))
                  ELSE mag,
          exact |-> ~dropped /\ mag < RangeCap * Scale,
          rest |-> rest]

\* the value of the mantissa digits D with the point after the first
\* point digits
DoubleDigits(neg, wellFormed, D, point, first, rest) ==
    DoubleResult(neg, wellFormed,
                 TooBig(D, point, first),
                 Vanishes(D, point, first),
                 Scaled(D, first, point + ScaleDigits, 0, RangeCap * Scale),
                 \E k \in DOMAIN D : k > point + ScaleDigits /\ D[k] # "0",
                 rest)

DoubleValue(neg, wellFormed, D, point, rest) ==
    DoubleDigits(neg, wellFormed, D, point, FirstNonZero(D, 1, Len(D)), rest)

DoubleExponent(tok, from, intEnd, fracEnd, hasE, expEnd) ==
    DoubleValue(from = 2 /\ tok[1] = "-",
                /\ HasMantissa(tok, from, intEnd, fracEnd)
                /\ hasE => expEnd > ExpStart(tok, fracEnd),
                MantissaDigits(tok, from, intEnd, fracEnd),
                (intEnd - from) + Exponent(tok, fracEnd, expEnd, hasE),
                SubSeq(tok, expEnd, Len(tok)))

DoubleMantissa(tok, from, intEnd, fracEnd, hasE) ==
    DoubleExponent(tok, from, intEnd, fracEnd, hasE,
                   IF hasE THEN DigitsEnd(tok, ExpStart(tok, fracEnd))
                   ELSE fracEnd)

DoubleFraction(tok, from, intEnd, fracEnd) ==
    DoubleMantissa(tok, from, intEnd, fracEnd,
                   HasExponent(tok, from, intEnd, fracEnd))

DoubleWhole(tok, from, intEnd) ==
    DoubleFraction(tok, from, intEnd,
                   IF HasPoint(tok, intEnd) THEN DigitsEnd(tok, intEnd + 1)
                   ELSE intEnd)

DoubleSign(tok, from) == DoubleWhole(tok, from, DigitsEnd(tok, from))

ParseDouble(tok) ==
    DoubleSign(tok, IF Len(tok) >= 1 /\ tok[1] \in {"-", "+"} THEN 2 ELSE 1)

RECURSIVE FormatNat(_)
FormatNat(n) ==
    IF n < 10 THEN <<Digits[n + 1]>>
    ELSE FormatNat(n \div 10) \o <<Digits[(n % 10) + 1]>>

\* operator<<(int): decimal text of n
FormatInt(n) == IF n < 0 THEN <<"-">> \o FormatNat(0 - n) ELSE FormatNat(n)

----------------------------------------------------------------------------
(* Input streams: operator>> on std::istream *)

\* toks: unread tokens; fail: failbit; hitEnd: a read ran out of tokens
IStream(toks) == [toks |-> toks, fail |-> FALSE, hitEnd |-> FALSE]

\* in >> std::string.  set = FALSE: the target variable was not written.
ReadStr(in) ==
    IF in.fail THEN [in |-> in, set |-> FALSE, val |-> <<>>]
    ELSE IF in.toks = <<>>
    THEN [in |-> [in EXCEPT !.fail = TRUE, !.hitEnd = TRUE],
          set |-> FALSE, val |-> <<>>]
    ELSE [in |-> [in EXCEPT !.toks = Tail(in.toks)],
          set |-> TRUE, val |-> Head(in.toks)]

\* in >> int.
\* set = FALSE: the target variable was not written (it keeps its old,
\* possibly indeterminate, value); on a failed conversion failbit is set
\* and 0, INT_MAX or INT_MIN is stored.
ReadInt(in) ==
    IF in.fail THEN [in |-> in, set |-> FALSE, val |-> 0]
    ELSE IF in.toks = <<>>
    THEN [in |-> [in EXCEPT !.fail = TRUE, !.hitEnd = TRUE],
          set |-> FALSE, val |-> 0]
    ELSE LET p    == ParseInt(Head(in.toks))
             left == IF p.rest = <<>> THEN Tail(in.toks)
                     ELSE <<p.rest>> \o Tail(in.toks)
         IN  [in |-> [in EXCEPT !.toks = left, !.fail = ~p.ok],
              set |-> TRUE, val |-> p.val]

\* in >> double: as in >> int, with the value in ten-thousandths
ReadDouble(in) ==
    IF in.fail THEN [in |-> in, set |-> FALSE, val |-> 0, exact |-> TRUE]
    ELSE IF in.toks = <<>>
    THEN [in |-> [in EXCEPT !.fail = TRUE, !.hitEnd = TRUE],
          set |-> FALSE, val |-> 0, exact |-> TRUE]
    ELSE LET p    == ParseDouble(Head(in.toks))
             left == IF p.rest = <<>> THEN Tail(in.toks)
                     ELSE <<p.rest>> \o Tail(in.toks)
         IN  [in |-> [in EXCEPT !.toks = left, !.fail = ~p.ok],
              set |-> TRUE, val |-> p.val, exact |-> p.exact]

----------------------------------------------------------------------------
(* Words of the command language and of the persistence format *)

W_add      == <<"a", "d", "d">>
W_print    == <<"p", "r", "i", "n", "t">>
W_save     == <<"s", "a", "v", "e">>
W_load     == <<"l", "o", "a", "d">>
W_battle   == <<"b", "a", "t", "t", "l", "e">>
W_exit     == <<"e", "x", "i", "t">>
W_princess == <<"p", "r", "i", "n", "c", "e", "s", "s">>
W_dragon   == <<"d", "r", "a", "g", "o", "n">>
W_knight   == <<"k", "n", "i", "g", "h", "t">>
W_PRINCESS == <<"P", "R", "I", "N", "C", "E", "S", "S">>
W_DRAGON   == <<"D", "R", "A", "G", "O", "N">>
W_KNIGHT   == <<"K", "N", "I", "G", "H", "T">>

----------------------------------------------------------------------------
(* NPC, its three kinds and the factory *)

NPCType == {"PRINCESS", "DRAGON", "KNIGHT"}

\* NPC::NPC: a new entity is alive
NPC(type, name, x, y) ==
    [type |-> type, name |-> name, x |-> x, y |-> y, alive |-> TRUE]

isAlive(npc) == npc.alive

markDead(npc) == [npc EXCEPT !.alive = FALSE]

\* square of NPC::distanceTo
distance2(a, b) == (a.x - b.x) * (a.x - b.x) + (a.y - b.y) * (a.y - b.y)

\* the whole part of the square of range / Scale, for 0 <= range / Scale
\* <= RangeCap (computed in parts that fit in 32 bits)
RangeSquared(range) ==
    LET q == range \div Scale
        f == range % Scale
        a == (2 * q * f) \div Scale
        b == (2 * q * f) % Scale
    IN  q * q + a + (b * Scale + f * f) \div (Scale * Scale)

\* variant: the comparison with range is strict
withinRange_strict(a, b, range) ==
    range >= 0 /\ distance2(a, b) < RangeSquared(range)

\* a.distanceTo(b) <= range, range in ten-thousandths: the square root of an
\* integer is <= a number >= 0 when the integer is <= the whole part of its
\* square, and is never <= a negative number
withinRange(a, b, range) ==
    range >= 0 /\ distance2(a, b) <= RangeSquared(range)

\* variant: the upper bounds are exclusive
badCoords_exclusive(x, y) == x < 0 \/ x >= 500 \/ y < 0 \/ y >= 500

\* the coordinate test of Dungeon::addNPC and NPCFactory::loadFromStream
badCoords(x, y) == x < 0 \/ x > 500 \/ y < 0 \/ y > 500

createNPC(type, name, x, y) == NPC(type, name, x, y)

\* NPCFactory::loadFromStream: one entity from the stream, or nullptr
\* (ok = FALSE); in is the stream afterwards
loadFromStream(in) ==
    LET r1 == ReadStr(in)
        r2 == ReadStr(r1.in)
        r3 == ReadInt(r2.in)
        r4 == ReadInt(r3.in)
        typeStr == r1.val
        known == typeStr \in {W_PRINCESS, W_DRAGON, W_KNIGHT}
        type == IF typeStr = W_PRINCESS THEN "PRINCESS"
                ELSE IF typeStr = W_DRAGON THEN "DRAGON" ELSE "KNIGHT"
    IN  IF r4.in.fail \/ ~known \/ badCoords(r3.val, r4.val)
        THEN [ok |-> FALSE, npc |-> NPC("PRINCESS", <<>>, 0, 0), in |-> r4.in]
        ELSE [ok |-> TRUE, npc |-> createNPC(type, r2.val, r3.val, r4.val),
              in |-> r4.in]

----------------------------------------------------------------------------
(* Files *)

\* a file is a sequence of lines, a line a sequence of tokens
NoFile == [exists |-> FALSE, lines |-> <<>>]

File(lines) == [exists |-> TRUE, lines |-> lines]

RECURSIVE Flatten(_)
\* the tokens of a text, line breaks being whitespace like any other
Flatten(lines) ==
    IF lines = <<>> THEN <<>> ELSE Head(lines) \o Flatten(Tail(lines))

\* std::ifstream file(filename): a missing file gives a stream whose reads fail
ifstream(fs, filename) ==
    IF filename \in DOMAIN fs /\ fs[filename].exists
    THEN IStream(Flatten(fs[filename].lines))
    ELSE [toks |-> <<>>, fail |-> TRUE, hitEnd |-> FALSE]

\* variant: y is written before x
saveLine_swapXY(npc) ==
    LET kind == IF npc.type = "PRINCESS" THEN W_PRINCESS
                ELSE IF npc.type = "DRAGON" THEN W_DRAGON ELSE W_KNIGHT
    IN  <<kind, npc.name, FormatInt(npc.y), FormatInt(npc.x)>>

\* the line Dungeon::saveToFile writes for one NPC: "KIND name x y"
saveLine(npc) ==
    LET kind == IF npc.type = "PRINCESS" THEN W_PRINCESS
                ELSE IF npc.type = "DRAGON" THEN W_DRAGON ELSE W_KNIGHT
    IN  <<kind>> \o (IF npc.name = <<>> THEN <<>> ELSE <<npc.name>>)
        \o <<FormatInt(npc.x), FormatInt(npc.y)>>

RECURSIVE saveLines(_)
saveLines(ns) ==
    IF ns = <<>> THEN <<>>
    ELSE (IF isAlive(Head(ns)) THEN <<saveLine(Head(ns))>> ELSE <<>>)
         \o saveLines(Tail(ns))

\* Dungeon::saveToFile: the file system afterwards.  std::ofstream
\* truncates the file; the empty name cannot be opened and nothing is written
saveToFile(fs, ns, filename) ==
    IF filename \in DOMAIN fs
    THEN [fs EXCEPT ![filename] = File(saveLines(ns))]
    ELSE fs

RECURSIVE loadLoop(_, _)
\* the while loop of Dungeon::loadFromFile: stops at the first nullptr
loadLoop(in, acc) ==
    LET r == loadFromStream(in)
    IN  IF r.ok THEN loadLoop(r.in, Append(acc, r.npc)) ELSE acc

\* npcs.clear()
clear(ns) == <<>>

\* variant: the registry is not cleared first
loadFromFile_noClear(ns, fs, filename) == loadLoop(ifstream(fs, filename), ns)

\* Dungeon::loadFromFile: the registry afterwards
loadFromFile(ns, fs, filename) == loadLoop(ifstream(fs, filename), clear(ns))

----------------------------------------------------------------------------
(* Observers and the battle visitor *)

KillEvent(killer, victim) == [ev |-> "kill", killer |-> killer, victim |-> victim]

\* the text both observers write for a kill: "<killer name> ... <victim name>"
KillText(killer, victim) == <<killer.name, victim.name>>

\* Observer::onKill on the battle state st = [npcs, out, log]:
\* ConsoleObserver writes to std::cout, FileObserver appends to log.txt
\* when it could open it
onKill(observer, st, killer, victim) ==
    IF observer = "console"
    THEN [st EXCEPT !.out = Append(@, KillEvent(killer, victim))]
    ELSE IF st.log.isOpen
    THEN [st EXCEPT !.log.lines = Append(@, KillText(killer, victim))]
    ELSE st

\* variant: a Princess kills a Dragon in range
visitPrincess_killsDragon(st, self, other, range, observer) ==
    IF /\ isAlive(st.npcs[other])
       /\ withinRange(st.npcs[self], st.npcs[other], range)
       /\ st.npcs[other].type = "DRAGON"
    THEN onKill(observer,
                [st EXCEPT !.npcs[other] = markDead(@)],
                st.npcs[self], markDead(st.npcs[other]))
    ELSE st

\* BattleVisitor::visit(Princess&): nothing
visitPrincess(st, self, other, range, observer) == st

\* variant: the Dragon does not look whether the other is alive
visitDragon_killsDead(st, self, other, range, observer) ==
    IF /\ withinRange(st.npcs[self], st.npcs[other], range)
       /\ st.npcs[other].type = "PRINCESS"
    THEN onKill(observer,
                [st EXCEPT !.npcs[other] = markDead(@)],
                st.npcs[self], markDead(st.npcs[other]))
    ELSE st

\* variant: the Dragon does not look at the distance
visitDragon_anyDistance(st, self, other, range, observer) ==
    IF isAlive(st.npcs[other]) /\ st.npcs[other].type = "PRINCESS"
    THEN [st EXCEPT !.npcs[other] = markDead(@),
                    !.out = Append(@, KillEvent(st.npcs[self],
                                                markDead(st.npcs[other])))]
    ELSE st

\* BattleVisitor::visit(Dragon&): self and other are registry indices
visitDragon(st, self, other, range, observer) ==
    IF /\ isAlive(st.npcs[other])
       /\ withinRange(st.npcs[self], st.npcs[other], range)
       /\ st.npcs[other].type = "PRINCESS"
    THEN onKill(observer,
                [st EXCEPT !.npcs[other] = markDead(@)],
                st.npcs[self], markDead(st.npcs[other]))
    ELSE st

\* variant: the Knight does not look at the kind of the other
visitKnight_anyKind(st, self, other, range, observer) ==
    IF /\ isAlive(st.npcs[other])
       /\ withinRange(st.npcs[self], st.npcs[other], range)
    THEN [st EXCEPT !.npcs[other] = markDead(@),
                    !.out = Append(@, KillEvent(st.npcs[self],
                                                markDead(st.npcs[other])))]
    ELSE st

\* BattleVisitor::visit(Knight&)
visitKnight(st, self, other, range, observer) ==
    IF /\ isAlive(st.npcs[other])
       /\ withinRange(st.npcs[self], st.npcs[other], range)
       /\ st.npcs[other].type = "DRAGON"
    THEN onKill(observer,
                [st EXCEPT !.npcs[other] = markDead(@)],
                st.npcs[self], markDead(st.npcs[other]))
    ELSE st

\* visitor.setOther(npcs[other]); npcs[self]->accept(visitor)
accept(st, self, other, range, observer) ==
    IF st.npcs[self].type = "PRINCESS"
    THEN visitPrincess(st, self, other, range, observer)
    ELSE IF st.npcs[self].type = "DRAGON"
    THEN visitDragon(st, self, other, range, observer)
    ELSE visitKnight(st, self, other, range, observer)

RECURSIVE battleInner_oneWay(_, _, _, _, _)
\* variant: only npcs[i] accepts the visitor, npcs[j] never does
battleInner_oneWay(st, i, j, range, observer) ==
    IF j > Len(st.npcs) THEN st
    ELSE IF ~isAlive(st.npcs[j])
    THEN battleInner_oneWay(st, i, j + 1, range, observer)
    ELSE battleInner_oneWay(accept(st, i, j, range, observer),
                            i, j + 1, range, observer)

RECURSIVE battleInner(_, _, _, _, _)
\* the loop over j of Dungeon::battle, from j on
battleInner(st, i, j, range, observer) ==
    IF j > Len(st.npcs) THEN st
    ELSE IF ~isAlive(st.npcs[j])
    THEN battleInner(st, i, j + 1, range, observer)
    ELSE battleInner(accept(accept(st, i, j, range, observer),
                            j, i, range, observer),
                     i, j + 1, range, observer)

RECURSIVE battleOuter(_, _, _, _)
\* the loop over i of Dungeon::battle, from i on
battleOuter(st, i, range, observer) ==
    IF i > Len(st.npcs) THEN st
    ELSE IF ~isAlive(st.npcs[i])
    THEN battleOuter(st, i + 1, range, observer)
    ELSE battleOuter(battleInner(st, i, i + 1, range, observer),
                     i + 1, range, observer)

\* variant: nothing is erased
purge_none(ns) == ns

RECURSIVE Reversed(_)
Reversed(q) == IF q = <<>> THEN <<>> ELSE Append(Reversed(Tail(q)), Head(q))

\* variant: the survivors are kept, but not in their order
purge_unstable(ns) == Reversed(SelectSeq(ns, isAlive))

\* the erase/remove_if at the end of Dungeon::battle
purge(ns) == SelectSeq(ns, isAlive)

\* variant: the visitor is built on fileObserver
battle_fileObserver(ns, log, range) ==
    LET st == battleOuter([npcs |-> ns, out |-> <<>>, log |-> log],
                          1, range, "file")
    IN  [st EXCEPT !.npcs = SelectSeq(@, isAlive)]

\* Dungeon::battle: [npcs, out, log] afterwards; the visitor is built on
\* consoleObserver
battle(ns, log, range) ==
    LET st == battleOuter([npcs |-> ns, out |-> <<>>, log |-> log],
                          1, range, "console")
    IN  [st EXCEPT !.npcs = purge(@)]

\* Dungeon::print: one line per living entity
PrintLine(npc) == [ev |-> "npc", type |-> npc.type, name |-> npc.name,
                   x |-> npc.x, y |-> npc.y]

RECURSIVE print(_)
print(ns) ==
    IF ns = <<>> THEN <<>>
    ELSE (IF isAlive(Head(ns)) THEN <<PrintLine(Head(ns))>> ELSE <<>>)
         \o print(Tail(ns))

ErrCoords  == [ev |-> "error", msg |-> "bad coordinates"]
ErrKind    == [ev |-> "error", msg |-> "unknown npc"]
ErrCommand == [ev |-> "error", msg |-> "unknown command"]

\* variant: the entity is appended whatever the coordinates, after the message
addNPC_noReturn(ns, type, name, x, y) ==
    [npcs |-> Append(ns, createNPC(type, name, x, y)),
     out |-> IF badCoords(x, y) THEN <<ErrCoords>> ELSE <<>>]

\* Dungeon::addNPC: [npcs, out] afterwards
addNPC(ns, type, name, x, y) ==
    IF badCoords(x, y)
    THEN [npcs |-> ns, out |-> <<ErrCoords>>]
    ELSE [npcs |-> Append(ns, createNPC(type, name, x, y)), out |-> <<>>]

----------------------------------------------------------------------------
(* main(): one action per branch of the command loop.                      *)
(* Each iteration is given the tokens that arrive on standard input for it *)
(* (more) and whether standard input ends after them (last).               *)

\* Values an uninitialised int may hold: any int.  addNPC treats all ints
\* outside the square alike, so Garbage has every int of the square and one
\* on each side of it.
Garbage == (0 - 1) .. 501

\* int x, y read before they were written: indeterminate, whatever an
\* earlier iteration left in the slot
StaleInt(slot) == Garbage \cup {slot}

RECURSIVE Reach(_, _, _)
\* the least range of lo .. hi, in ten-thousandths, whose square is n or
\* more: the least that reaches two places with n the square of their
\* distance
Reach(n, lo, hi) ==
    IF lo = hi THEN lo
    ELSE LET m == (lo + hi) \div 2
         IN  IF RangeSquared(m) >= n THEN Reach(n, lo, m)
             ELSE Reach(n, m + 1, hi)

\* double range read before it was written: indeterminate, any double.
\* battle only compares it with the distances between the entities ns, so
\* it is taken below zero (as is NaN), zero, what the slot held, and for
\* every distance the least double that reaches it.
StaleDouble(slot, ns) ==
    {0 - Scale, 0, slot}
    \cup {Reach(distance2(ns[i], ns[j]), 0, RangeCap * Scale) :
            i \in DOMAIN ns, j \in DOMAIN ns}

\* the ten-thousandths that stand for the double read by r: when digits
\* were cut and a distance lies between val and val + 1, either side of it
Doubles(r) ==
    IF r.exact \/ r.val < 0 \/ r.val >= RangeCap * Scale THEN {r.val}
    ELSE IF RangeSquared(r.val) = RangeSquared(r.val + 1) THEN {r.val}
    ELSE {r.val, r.val + 1}

NoLocals == [type |-> <<>>, name |-> <<>>, x |-> 0, y |-> 0,
             filename |-> <<>>, range |-> 0]

\* the locals of a new iteration: the strings are constructed empty, the
\* slots of x, y and range hold what they held
NewLocals == [NoLocals EXCEPT !.x = locals.x, !.y = locals.y,
                              !.range = locals.range]

\* std::cin as the iteration sees it
CinWith(more) == [toks |-> cin.toks \o more, fail |-> cin.fail, hitEnd |-> FALSE]

\* new input arrives only when the buffered input is used up and the
\* stream has not ended
Arrives(more, last) ==
    /\ pc = "loop"
    /\ cout # "bad"
    /\ (cin.toks # <<>> \/ cin.eof) => more = <<>>
    /\ cin.eof => last

\* std::cin after the iteration; a read may run out of tokens only at the
\* end of standard input
CinAfter(in, last) ==
    /\ in.hitEnd => last
    /\ cin' = [toks |-> in.toks, fail |-> in.fail, eof |-> last]

\* std::cin is tied to std::cout: reading it flushes the prompt, and the
\* flush sets badbit when the device takes nothing
CoutAfter == cout' = IF cout = "full" THEN "bad" ELSE cout

\* std::cin >> command succeeded and read word
Reads(more, word) ==
    LET rc == ReadStr(CinWith(more)) IN rc.set /\ rc.val = word

AfterCommand(more) == ReadStr(CinWith(more)).in

\* while (std::cout << prompt && std::cin >> command) fails: return 0.
\* Either std::cout is bad, or the read of command fails.
LoopEnd(more, last) ==
    /\ pc = "loop"
    /\ more = <<>>
    /\ \/ /\ cout = "bad"
          /\ UNCHANGED <<cin, cout>>
       \/ /\ Arrives(more, last)
          /\ LET rc == ReadStr(CinWith(more))
             IN  /\ ~rc.set
                 /\ CinAfter(rc.in, last)
          /\ CoutAfter
    /\ pc' = "done"
    /\ UNCHANGED <<npcs, logFile, files, command, locals, out>>

\* variant: an unrecognised keyword falls through to a default kind
kindOf_default(type) ==
    IF type = W_princess THEN [known |-> TRUE, npcType |-> "PRINCESS"]
    ELSE IF type = W_dragon THEN [known |-> TRUE, npcType |-> "DRAGON"]
    ELSE [known |-> TRUE, npcType |-> "KNIGHT"]

\* the if/else chain of main() from the kind keyword to NPCType
kindOf(type) ==
    IF type = W_princess THEN [known |-> TRUE, npcType |-> "PRINCESS"]
    ELSE IF type = W_dragon THEN [known |-> TRUE, npcType |-> "DRAGON"]
    ELSE IF type = W_knight THEN [known |-> TRUE, npcType |-> "KNIGHT"]
    ELSE [known |-> FALSE, npcType |-> "PRINCESS"]

\* command == "add".  x and y are read where addNPC is called, after the
\* kind was recognised; one that operator>> did not write is indeterminate.
CmdAdd(more, last) ==
    /\ Arrives(more, last)
    /\ Reads(more, W_add)
    /\ LET r1 == ReadStr(AfterCommand(more))
           r2 == ReadStr(r1.in)
           r3 == ReadInt(r2.in)
           r4 == ReadInt(r3.in)
           type == r1.val
           kind == kindOf(type)
       IN  \E x \in (IF r3.set THEN {r3.val}
                     ELSE IF kind.known THEN StaleInt(locals.x)
                     ELSE {locals.x}),
              y \in (IF r4.set THEN {r4.val}
                     ELSE IF kind.known THEN StaleInt(locals.y)
                     ELSE {locals.y}) :
             LET res == IF kind.known THEN addNPC(npcs, kind.npcType, r2.val, x, y)
                        ELSE [npcs |-> npcs, out |-> <<ErrKind>>]
             IN  /\ Len(res.npcs) <= MaxNpcs
                 /\ CinAfter(r4.in, last)
                 /\ npcs' = res.npcs
                 /\ out' = res.out
                 /\ locals' = [NewLocals EXCEPT !.type = type, !.name = r2.val,
                                                !.x = x, !.y = y]
    /\ CoutAfter
    /\ command' = W_add
    /\ pc' = "loop"
    /\ UNCHANGED <<logFile, files>>

\* command == "print"
CmdPrint(more, last) ==
    /\ Arrives(more, last)
    /\ Reads(more, W_print)
    /\ CinAfter(AfterCommand(more), last)
    /\ out' = print(npcs)
    /\ command' = W_print
    /\ locals' = NewLocals
    /\ CoutAfter
    /\ pc' = "loop"
    /\ UNCHANGED <<npcs, logFile, files>>

\* command == "save"
CmdSave(more, last) ==
    /\ Arrives(more, last)
    /\ Reads(more, W_save)
    /\ LET rf == ReadStr(AfterCommand(more))
       IN  /\ CinAfter(rf.in, last)
           /\ files' = saveToFile(files, npcs, rf.val)
           /\ locals' = [NewLocals EXCEPT !.filename = rf.val]
    /\ CoutAfter
    /\ command' = W_save
    /\ out' = <<>>
    /\ pc' = "loop"
    /\ UNCHANGED <<npcs, logFile>>

\* command == "load"
CmdLoad(more, last) ==
    /\ Arrives(more, last)
    /\ Reads(more, W_load)
    /\ LET rf == ReadStr(AfterCommand(more))
       IN  /\ CinAfter(rf.in, last)
           /\ npcs' = loadFromFile(npcs, files, rf.val)
           /\ locals' = [NewLocals EXCEPT !.filename = rf.val]
    /\ CoutAfter
    /\ command' = W_load
    /\ out' = <<>>
    /\ pc' = "loop"
    /\ UNCHANGED <<logFile, files>>

\* command == "battle".  A range that operator>> did not write is
\* indeterminate.
CmdBattle(more, last) ==
    /\ Arrives(more, last)
    /\ Reads(more, W_battle)
    /\ LET rr == ReadDouble(AfterCommand(more))
       IN  \E range \in (IF rr.set THEN Doubles(rr)
                         ELSE StaleDouble(locals.range, npcs)) :
             LET res == battle(npcs, logFile, range)
             IN  /\ CinAfter(rr.in, last)
                 /\ npcs' = res.npcs
                 /\ out' = res.out
                 /\ logFile' = res.log
                 /\ locals' = [NewLocals EXCEPT !.range = range]
    /\ CoutAfter
    /\ command' = W_battle
    /\ pc' = "loop"
    /\ UNCHANGED files

\* variant: exit is dispatched but the loop is not left
CmdExit_noBreak(more, last) ==
    /\ Arrives(more, last)
    /\ Reads(more, W_exit)
    /\ CinAfter(AfterCommand(more), last)
    /\ command' = W_exit
    /\ locals' = NewLocals
    /\ CoutAfter
    /\ out' = <<>>
    /\ pc' = "loop"
    /\ UNCHANGED <<npcs, logFile, files>>

\* command == "exit": break
CmdExit(more, last) ==
    /\ Arrives(more, last)
    /\ Reads(more, W_exit)
    /\ CinAfter(AfterCommand(more), last)
    /\ command' = W_exit
    /\ locals' = NewLocals
    /\ CoutAfter
    /\ out' = <<>>
    /\ pc' = "done"
    /\ UNCHANGED <<npcs, logFile, files>>

\* the final else: any other word
CmdUnknown(more, last) ==
    /\ Arrives(more, last)
    /\ LET rc == ReadStr(CinWith(more))
       IN  /\ rc.set
           /\ rc.val \notin {W_add, W_print, W_save, W_load, W_battle, W_exit}
           /\ CinAfter(rc.in, last)
           /\ command' = rc.val
    /\ out' = <<ErrCommand>>
    /\ locals' = NewLocals
    /\ CoutAfter
    /\ pc' = "loop"
    /\ UNCHANGED <<npcs, logFile, files>>

\* the state after Dungeon dungeon; std::string command; with the files fs
\* present on disk.  log.txt could be opened or not (opened: the cases
\* taken); standard output takes what is written or takes nothing; the
\* slots of x, y and range are indeterminate (StaleInt and StaleDouble
\* supply the other values).
InitWith(fs, opened) ==
    /\ npcs = <<>>
    /\ logFile \in {[isOpen |-> b, lines |-> <<>>] : b \in opened}
    /\ files = fs
    /\ cin = [toks |-> <<>>, fail |-> FALSE, eof |-> FALSE]
    /\ pc = "loop"
    /\ command = <<>>
    /\ locals = NoLocals
    /\ out = <<>>
    /\ cout \in {"good", "full"}

----------------------------------------------------------------------------
(* Input alphabets and specifications *)
(* An input is <<more, last>>: the tokens arriving for one iteration and   *)
(* whether standard input ends after them.                                 *)

AddLine(kind, name, x, y) == <<W_add, kind, name, FormatInt(x), FormatInt(y)>>

BattleLine(range) == <<W_battle, FormatInt(range)>>

\* ranges that are not written as whole numbers
T_4_9 == <<"4", ".", "9">>
T__5  == <<".", "5">>

KindWords == {W_princess, W_dragon, W_knight}

EndOfInput == <<<<>>, TRUE>>

\* Battles: every kind, two names, two places at distance 5, ranges below
\* (0 and 4.9) and at that distance
BattleInputs ==
    {<<AddLine(k, n, p[1], p[2]), FALSE>> :
        k \in KindWords, n \in {<<"A">>, <<"B">>}, p \in {<<0, 0>>, <<3, 4>>}}
    \cup {<<BattleLine(0), FALSE>>, <<<<W_battle, T_4_9>>, FALSE>>,
          <<BattleLine(5), FALSE>>}
    \cup {<<<<W_exit>>, FALSE>>, EndOfInput}

InitBattle == InitWith([p \in {} |-> NoFile], {TRUE})

NextBattle ==
    \E in \in BattleInputs :
        \/ CmdAdd(in[1], in[2])
        \/ CmdBattle(in[1], in[2])
        \/ CmdExit(in[1], in[2])
        \/ LoopEnd(in[1], in[2])

SpecBattle == InitBattle /\ [][NextBattle]_vars

----------------------------------------------------------------------------------------------------------------------------------------
(* Adding: every kind, two names, two opposite corners of the legal square *)
(* and one illegal place beyond each of its four sides                     *)

AddInputs ==
    {<<AddLine(k, n, 0, 0), FALSE>> : k \in KindWords, n \in {<<"A">>, <<"B">>}}
    \cup {<<AddLine(k, <<"A">>, 500, 500), FALSE>> : k \in KindWords}
    \cup {<<AddLine(k, <<"A">>, p[1], p[2]), FALSE>> :
        k \in KindWords,
        p \in {<<-1, 0>>, <<501, 0>>, <<0, -1>>, <<0, 501>>}}
    \cup {<<<<W_print>>, FALSE>>, <<<<W_exit>>, FALSE>>, EndOfInput}

InitAdd == InitWith([p \in {} |-> NoFile], {TRUE})

NextAdd ==
    \E in \in AddInputs :
        \/ CmdAdd(in[1], in[2])
        \/ CmdPrint(in[1], in[2])
        \/ CmdExit(in[1], in[2])
        \/ LoopEnd(in[1], in[2])

SpecAdd == InitAdd /\ [][NextAdd]_vars

----------------------------------------------------------------------------
(* Saving and loading: one path, f, which at the start is missing, empty   *)
(* or holds text that did not come from this program                       *)

F_path == <<"f">>

L_good   == <<W_KNIGHT, <<"X">>, <<"7">>, <<"5", "0", "0">>>>
L_other  == <<W_DRAGON, <<"Y">>, <<"0">>, <<"0">>>>
L_coord  == <<W_DRAGON, <<"Y">>, <<"1">>, <<"5", "0", "1">>>>
L_kind   == <<W_dragon, <<"Y">>, <<"1">>, <<"1">>>>
L_number == <<W_DRAGON, <<"Y">>, <<"x">>, <<"1">>>>

ExternalFiles ==
    {NoFile, File(<<>>), File(<<L_good>>),
     File(<<L_good, L_coord>>), File(<<L_coord, L_good>>),
     File(<<L_good, L_kind, L_other>>), File(<<L_number, L_good>>),
     File(<<<<W_KNIGHT, <<"X">>>>, <<<<"7">>, <<"5", "0", "0">>>>>>)}

FileInputs ==
    {<<AddLine(W_princess, <<"A">>, 0, 0), FALSE>>,
     <<AddLine(W_dragon, <<"A">>, 0, 0), FALSE>>,
     <<AddLine(W_dragon, <<"B">>, 500, 12), FALSE>>,
     <<<<W_save, F_path>>, FALSE>>, <<<<W_load, F_path>>, FALSE>>,
     <<<<W_save>>, TRUE>>, <<<<W_load>>, TRUE>>,
     <<BattleLine(0), FALSE>>,
     <<<<W_exit>>, FALSE>>, EndOfInput}

InitFile == \E f \in ExternalFiles : InitWith([p \in {F_path} |-> f], BOOLEAN)

NextFile ==
    \E in \in FileInputs :
        \/ CmdAdd(in[1], in[2])
        \/ CmdSave(in[1], in[2])
        \/ CmdLoad(in[1], in[2])
        \/ CmdBattle(in[1], in[2])
        \/ CmdExit(in[1], in[2])
        \/ LoopEnd(in[1], in[2])

SpecFile == InitFile /\ [][NextFile]_vars

----------------------------------------------------------------------------
(* The whole command loop on a small vocabulary: well-formed commands,     *)
(* unknown words, malformed arguments, and commands cut short by the end   *)
(* of standard input                                                       *)

W_wizard == <<"w", "i", "z", "a", "r", "d">>
W_ADD    == <<"A", "D", "D">>

LoopInputs ==
    {<<AddLine(k, <<"A">>, 0, 0), FALSE>> : k \in {W_dragon, W_princess}}
    \cup {<<AddLine(W_dragon, <<"A">>, 501, 0), FALSE>>,
          <<AddLine(W_wizard, <<"A">>, 0, 501), FALSE>>,
          <<<<W_add, W_dragon, <<"A">>, <<"0">>, <<"y">>>>, FALSE>>,
          <<<<W_add, W_wizard, <<"A">>, <<"x">>, <<"0">>>>, FALSE>>,
          <<<<W_add>>, TRUE>>, <<<<W_add, W_wizard>>, TRUE>>,
          <<<<W_add, W_wizard, <<"A">>>>, TRUE>>,
          <<<<W_add, W_wizard, <<"A">>, <<"0">>>>, TRUE>>}
    \cup {<<<<W_print>>, FALSE>>,
          <<<<W_save, F_path>>, FALSE>>, <<<<W_load, F_path>>, FALSE>>,
          <<<<W_save>>, TRUE>>, <<<<W_load>>, TRUE>>,
          <<<<W_battle, T__5>>, FALSE>>,
          <<<<W_battle, <<"x">>>>, FALSE>>,
          <<<<W_battle>>, TRUE>>,
          <<<<W_ADD>>, FALSE>>,
          <<<<W_exit>>, FALSE>>, EndOfInput, <<<<>>, FALSE>>}

\* Inputs after which a known kind is added with y never written: y is
\* then any int, 503 outcomes each, so they are taken as the first command
\* only
StaleInputs ==
    {<<<<W_add, W_dragon, <<"A">>, <<"x">>, <<"0">>>>, FALSE>>,
     <<<<W_add, W_dragon, <<"A">>, <<"0">>>>, TRUE>>}

\* the inputs taken by the next iteration
Inputs == LoopInputs \cup (IF command = <<>> THEN StaleInputs ELSE {})

Init == \E f \in {NoFile, File(<<L_coord, L_good>>)} :
            InitWith([p \in {F_path} |-> f], {TRUE})

Next ==
    \E in \in Inputs :
        \/ CmdAdd(in[1], in[2])
        \/ CmdPrint(in[1], in[2])
        \/ CmdSave(in[1], in[2])
        \/ CmdLoad(in[1], in[2])
        \/ CmdBattle(in[1], in[2])
        \/ CmdExit(in[1], in[2])
        \/ CmdUnknown(in[1], in[2])
        \/ LoopEnd(in[1], in[2])

Spec == Init /\ [][Next]_vars

\* main() is a sequential program: while it has a next step it takes it
SpecLive == Init /\ [][Next]_vars /\ WF_vars(Next)

----------------
(* Vocabulary of the properties *)

\* the step is one iteration of the command loop that dispatched word
Iteration(word) == pc = "loop" /\ pc' = "loop" /\ command' = word

\* the state follows an iteration that dispatched word
After(word) == pc = "loop" /\ command = word

\* Euclidean distance between a and b is <= r, = r (r in ten-thousandths)
DistLeq(a, b, r) ==
    /\ r >= 0
    /\ (a.x - b.x) * (a.x - b.x) + (a.y - b.y) * (a.y - b.y) <= RangeSquared(r)

DistEq(a, b, r) ==
    /\ r >= 0 /\ r % Scale = 0
    /\ (a.x - b.x) * (a.x - b.x) + (a.y - b.y) * (a.y - b.y)
          = (r \div Scale) * (r \div Scale)

\* entity i of registry ns is a Princess within r of a Dragon of ns, or a
\* Dragon within r of a Knight of ns
Doomed(ns, i, r) ==
    \/ /\ ns[i].type = "PRINCESS"
       /\ \E j \in DOMAIN ns : ns[j].type = "DRAGON" /\ DistLeq(ns[i], ns[j], r)
    \/ /\ ns[i].type = "DRAGON"
       /\ \E j \in DOMAIN ns : ns[j].type = "KNIGHT" /\ DistLeq(ns[i], ns[j], r)

\* number of entries of ns equal to e
Count(ns, e) == Cardinality({k \in DOMAIN ns : ns[k] = e})

----------------------------------------------------------------------------
(* Battle *)

\* C1 (as claimed): a battle pass removes every Princess that was within
\* range of some Dragon and every Dragon that was within range of some
\* Knight at the start of the pass.
\* Dungeon::battle does not do this: a Dragon killed at an earlier pair is
\* skipped as outer index and never meets the Princesses behind it.
C1_StartOfPassKills ==
    [][Iteration(W_battle) =>
         \A i \in DOMAIN npcs :
            Doomed(npcs, i, locals'.range) => Count(npcs', npcs[i]) = 0]_vars

\* C2: a battle pass removes nothing but Princesses that were within range
\* of a Dragon and Dragons that were within range of a Knight; no Knight is
\* removed, no Princess is reported as a killer, and a registry of a
\* single kind is left unchanged.
C2_KillRuleSound ==
    [][Iteration(W_battle) =>
         /\ \A i \in DOMAIN npcs :
               ~Doomed(npcs, i, locals'.range)
                  => Count(npcs', npcs[i]) = Count(npcs, npcs[i])
         /\ \A i \in DOMAIN npcs :
               npcs[i].type = "KNIGHT"
                  => Count(npcs', npcs[i]) = Count(npcs, npcs[i])
         /\ \A k \in DOMAIN out' :
               out'[k].ev = "kill" => out'[k].killer.type # "PRINCESS"
         /\ (\A i, j \in DOMAIN npcs : npcs[i].type = npcs[j].type)
               => npcs' = npcs /\ out' = <<>>]_vars

\* a battle removed a Dragon and a Princess in one pass
C2_Witness ==
    /\ After(W_battle)
    /\ \E a, b \in DOMAIN out :
          /\ out[a].ev = "kill" /\ out[a].victim.type = "PRINCESS"
          /\ out[b].ev = "kill" /\ out[b].victim.type = "DRAGON"
    /\ \E i \in DOMAIN npcs : npcs[i].type = "KNIGHT"

\* C3: with exactly one Dragon and one Princess in the registry, a battle
\* whose range equals their distance emits exactly one notification, naming
\* the Dragon as killer and the Princess as victim, and leaves only the
\* Dragon; a battle whose range is below their distance removes nothing.
C3_InclusiveThreshold ==
    [][Iteration(W_battle) /\ Len(npcs) = 2 =>
         \A d, p \in DOMAIN npcs :
            npcs[d].type = "DRAGON" /\ npcs[p].type = "PRINCESS" =>
               /\ DistEq(npcs[d], npcs[p], locals'.range) =>
                     /\ Len(out') = 1
                     /\ out'[1].ev = "kill"
                     /\ out'[1].killer.name = npcs[d].name
                     /\ out'[1].victim.name = npcs[p].name
                     /\ out'[1].killer.type = "DRAGON"
                     /\ out'[1].victim.type = "PRINCESS"
                     /\ npcs' = <<npcs[d]>>
                     /\ print(npcs') = <<PrintLine(npcs[d])>>
               /\ ~DistLeq(npcs[d], npcs[p], locals'.range) =>
                     npcs' = npcs /\ out' = <<>>]_vars

\* a battle of range 5 has just killed a Princess at distance exactly 5
\* from the only Dragon, who is all that is left
C3_Witness ==
    /\ After(W_battle)
    /\ locals.range = 5 * Scale
    /\ Len(out) = 1 /\ out[1].ev = "kill"
    /\ DistEq(out[1].killer, out[1].victim, 5 * Scale)
    /\ out[1].killer.name # out[1].victim.name
    /\ npcs = <<out[1].killer>>

\* C8: a battle on a registry in which no two entities are within range of
\* each other changes nothing and emits no notification.
C8_NoPairNoOp ==
    [][Iteration(W_battle)
         /\ (\A i, j \in DOMAIN npcs :
                i < j => ~DistLeq(npcs[i], npcs[j], locals'.range))
       => npcs' = npcs /\ out' = <<>> /\ logFile' = logFile]_vars

\* a battle has just left a Dragon and a Princess out of range of each
\* other untouched
C8_Witness ==
    /\ After(W_battle)
    /\ out = <<>>
    /\ \E i, j \in DOMAIN npcs :
          npcs[i].type = "DRAGON" /\ npcs[j].type = "PRINCESS"
    /\ \A i, j \in DOMAIN npcs :
          i < j => ~DistLeq(npcs[i], npcs[j], locals.range)

----------------------------------------------------------------------------
(* Adding *)

\* the kind a lowercase keyword of the add command stands for
KindNamed(word) ==
    IF word = W_princess THEN "PRINCESS"
    ELSE IF word = W_dragon THEN "DRAGON" ELSE "KNIGHT"

InSquare(x, y) == 0 <= x /\ x <= 500 /\ 0 <= y /\ y <= 500

\* the entity the last add command asked for
Asked(l) == [type |-> KindNamed(l.type), name |-> l.name,
             x |-> l.x, y |-> l.y, alive |-> TRUE]

\* C4: an add with a known kind and 0 <= x, y <= 500 appends exactly one
\* living entity with that kind, name, x and y at the end of the registry
\* and leaves the entities before it as they were; print then shows the
\* former lines followed by the line of the new entity.
C4_AddAppends ==
    [][Iteration(W_add) /\ locals'.type \in KindWords
         /\ InSquare(locals'.x, locals'.y)
       => /\ npcs' = npcs \o <<Asked(locals')>>
          /\ print(npcs') = print(npcs)
                \o <<[ev |-> "npc", type |-> KindNamed(locals'.type),
                      name |-> locals'.name, x |-> locals'.x, y |-> locals'.y]>>
          /\ out' = <<>>]_vars

\* an add at (500, 500) has just been appended behind an entity at (0, 0)
C4_Witness ==
    /\ After(W_add)
    /\ locals.x = 500 /\ locals.y = 500
    /\ Len(npcs) >= 2
    /\ npcs[Len(npcs)] = Asked(locals)
    /\ npcs[1].x = 0 /\ npcs[1].y = 0
    /\ npcs[1].name # npcs[Len(npcs)].name

\* C5: an add with x or y outside [0, 500] leaves the registry as it was;
\* its only effect is an error message.
C5_AddRejects ==
    [][Iteration(W_add) /\ ~InSquare(locals'.x, locals'.y)
       => /\ npcs' = npcs
          /\ Len(out') = 1 /\ out'[1].ev = "error"
          /\ files' = files /\ logFile' = logFile]_vars

\* an add with x = 501 has just been rejected on a populated registry
C5_Witness ==
    /\ After(W_add)
    /\ locals.x = 501
    /\ locals.type \in KindWords
    /\ out = <<ErrCoords>>
    /\ Len(npcs) >= 1

----------------------------------------------------------------------------
(* Saving and loading *)

\* the file the last load command named, as a sequence of lines
FileLines(fs, filename) ==
    IF filename \in DOMAIN fs /\ fs[filename].exists
    THEN fs[filename].lines ELSE <<>>

IsNumber(tok) == ParseInt(tok).ok /\ ParseInt(tok).rest = <<>>

\* four tokens that spell an entity: uppercase kind, name, x, y in [0, 500]
SpellsEntity(t) ==
    /\ Len(t) = 4
    /\ t[1] \in {W_PRINCESS, W_DRAGON, W_KNIGHT}
    /\ IsNumber(t[3]) /\ IsNumber(t[4])
    /\ InSquare(ParseInt(t[3]).val, ParseInt(t[4]).val)

EntitySpelled(t) ==
    [type |-> IF t[1] = W_PRINCESS THEN "PRINCESS"
              ELSE IF t[1] = W_DRAGON THEN "DRAGON" ELSE "KNIGHT",
     name |-> t[2], x |-> ParseInt(t[3]).val, y |-> ParseInt(t[4]).val,
     alive |-> TRUE]

\* the entities of the well-formed lines, in file order
WellFormedEntities(lines) ==
    LET good == SelectSeq(lines, SpellsEntity)
    IN  [k \in 1..Len(good) |-> EntitySpelled(good[k])]

\* C6: save does not change the registry, and a load of the path just
\* saved leaves the registry equal to what it was: same kind, name, x, y,
\* same order, all alive.
C6_SaveLoadRoundTrip ==
    [][/\ Iteration(W_save) => npcs' = npcs
       /\ (After(W_save) /\ Iteration(W_load)
             /\ locals'.filename = locals.filename)
          => npcs' = npcs /\ \A i \in DOMAIN npcs' : npcs'[i].alive]_vars

\* a registry built by add, with a three-digit coordinate, has just been
\* loaded back from the file that holds exactly its lines
C6_Witness ==
    /\ After(W_load)
    /\ locals.filename = F_path
    /\ Len(npcs) >= 2
    /\ \E i \in DOMAIN npcs : npcs[i].x = 500 /\ npcs[i].name = <<"B">>
    /\ files[F_path] = File([k \in DOMAIN npcs |->
          <<IF npcs[k].type = "PRINCESS" THEN W_PRINCESS
            ELSE IF npcs[k].type = "DRAGON" THEN W_DRAGON ELSE W_KNIGHT,
            npcs[k].name, FormatInt(npcs[k].x), FormatInt(npcs[k].y)>>])

\* C7 (as claimed): after a load the registry consists of exactly the
\* well-formed lines of the file, in file order, wherever the malformed
\* lines are (stated for files whose lines all have four tokens).
\* Dungeon::loadFromFile does not do this: its loop ends at the first line
\* for which loadFromStream returns nullptr.
C7_LoadSkipsBadLines ==
    [][Iteration(W_load)
         /\ (\A l \in DOMAIN FileLines(files, locals'.filename) :
                Len(FileLines(files, locals'.filename)[l]) = 4)
       => npcs' = WellFormedEntities(FileLines(files, locals'.filename))]_vars

\* C9: after a load every entity of the registry is spelled by four
\* consecutive tokens of the file, whatever the registry held before; a
\* missing or empty file leaves the registry empty; and the loop is left
\* only by exit, by a failed read of the next command, or because standard
\* output has failed.
C9_LoadReplaces ==
    [][/\ Iteration(W_load) =>
            LET toks == Flatten(FileLines(files, locals'.filename))
            IN  /\ \A k \in DOMAIN npcs' :
                      \E t \in 1..Len(toks) :
                         /\ t + 3 <= Len(toks)
                         /\ SpellsEntity(SubSeq(toks, t, t + 3))
                         /\ npcs'[k] = EntitySpelled(SubSeq(toks, t, t + 3))
                /\ 4 * Len(npcs') <= Len(toks)
                /\ toks = <<>> => npcs' = <<>>
       /\ (pc = "loop" /\ pc' = "done" /\ command' = W_load)
             => (cin'.fail \/ cout = "bad") /\ npcs' = npcs]_vars

\* a load has just left the registry with the one entity of a file that
\* this program did not write, and the loop is at its head with standard
\* input still good
C9_Witness ==
    /\ After(W_load)
    /\ locals.filename = F_path
    /\ files[F_path] = File(<<L_good, L_coord>>)
    /\ npcs = <<EntitySpelled(L_good)>>
    /\ cin.toks = <<>> /\ ~cin.fail

----------------------------------------------------------------------------
(* The command loop *)

CommandWords == {W_add, W_print, W_save, W_load, W_battle, W_exit}

\* C10: an unrecognised command word, and an add with an unrecognised kind
\* keyword, change nothing in the registry, report an error, and do not end
\* the loop: the loop is left only by exit, by a failed read of the next
\* command, or because standard output has failed.
C10_UnknownWords ==
    [][/\ (pc = "loop" /\ pc' = "loop" /\ command' \notin CommandWords)
          => /\ npcs' = npcs /\ files' = files /\ logFile' = logFile
             /\ out' = <<ErrCommand>>
       /\ (Iteration(W_add) /\ locals'.type \notin KindWords)
          => /\ npcs' = npcs /\ files' = files /\ logFile' = logFile
             /\ out' = <<ErrKind>>
       /\ (pc = "loop" /\ pc' = "done")
          => \/ command' = W_exit
             \/ /\ cin'.fail \/ cout = "bad"
                /\ UNCHANGED <<npcs, files, logFile, command, out>>]_vars

\* the loop is at its head again after an add with the kind wizard on a
\* populated registry, standard input still good
C10_Witness ==
    /\ After(W_add)
    /\ locals.type = W_wizard
    /\ out = <<ErrKind>>
    /\ Len(npcs) >= 1
    /\ ~cin.fail /\ ~cin.eof

\* C11 (as claimed): with standard output in order, the loop stops only on
\* exit or when standard input is used up; no command, malformed arguments
\* included, stops it while unread input remains.
\* main() does not do this: a numeric argument that does not parse sets the
\* failbit of std::cin, the next read of a command fails and the loop ends
\* with the offending token and all that follows unread.
C11_StopsOnlyOnExitOrEnd ==
    pc = "done" /\ cout = "good"
        => command = W_exit \/ (cin.toks = <<>> /\ cin.eof)

\* C12: once standard input has ended or failed, or standard output has
\* failed, the loop terminates (main returns 0); when exit has been read the
\* loop is over; and after the loop nothing is executed and nothing is
\* modified any more.
C12_Terminates ==
    /\ (cin.eof \/ cin.fail \/ cout = "bad") ~> (pc = "done")
    /\ [](command = W_exit => pc = "done")
    /\ [][pc = "done" => UNCHANGED <<pc, npcs, files, logFile, command, out, cout>>]_vars

\* main has returned after an exit that left a populated registry behind,
\* standard input neither ended nor failed
C12_Witness ==
    /\ pc = "done"
    /\ command = W_exit
    /\ Len(npcs) >= 1
    /\ ~cin.eof /\ ~cin.fail

----------------------------------------------------------------------------
(* Inside a battle pass *)

\* e with its alive flag set
Living(e) == [e EXCEPT !.alive = TRUE]

\* the sequences with the entries of q in any order
Orders(q) ==
    {[k \in DOMAIN q |-> q[f[k]]] :
        f \in {g \in [DOMAIN q -> DOMAIN q] :
                  \A a, b \in DOMAIN q : a # b => g[a] # g[b]}}

SameMultiset(a, b) ==
    /\ Len(a) = Len(b)
    /\ \A k \in DOMAIN a : Count(a, a[k]) = Count(b, a[k])

\* a is b with some entries left out
IsSubsequence(a, b) ==
    \E f \in [DOMAIN a -> DOMAIN b] :
        /\ \A k \in DOMAIN a : a[k] = b[f[k]]
        /\ \A k, l \in DOMAIN a : k < l => f[k] < f[l]

\* C13 (as claimed): every kill notification of a battle names a killer
\* that is alive when the kill is applied.
\* Dungeon::battle does not do this: the inner loop tests npcs[j] only, so
\* an npcs[i] killed at an earlier j still accepts the visitor and kills.
C13_KillersAlive ==
    After(W_battle) =>
        \A k \in DOMAIN out : out[k].ev = "kill" => out[k].killer.alive

\* C14 (as claimed): the survivors of a battle are the same multiset
\* whatever the order in which the same entities stand in the registry.
\* Dungeon::battle does not do this, for the reason given at C1.
C14_OrderIrrelevant ==
    [][Iteration(W_battle) =>
         \A other \in Orders(npcs) :
            SameMultiset(battle(other, logFile, locals'.range).npcs, npcs')]_vars

\* C15: in one battle pass every entity is the victim of as many
\* notifications as copies of it are removed, which is at most once per
\* entity, and the pass emits nothing but these notifications.
C15_OneNotificationPerDeath ==
    [][Iteration(W_battle) =>
         /\ \A k \in DOMAIN out' : out'[k].ev = "kill" /\ ~out'[k].victim.alive
         /\ Len(out') = Len(npcs) - Len(npcs')
         /\ \A i \in DOMAIN npcs :
               Cardinality({k \in DOMAIN out' :
                               Living(out'[k].victim) = npcs[i]})
                  = Count(npcs, npcs[i]) - Count(npcs', npcs[i])]_vars

\* a battle has just killed one Princess that stood within range of two
\* Dragons, both still there
C15_Witness ==
    /\ After(W_battle)
    /\ Len(out) = 1
    /\ out[1].victim.type = "PRINCESS"
    /\ \E i, j \in DOMAIN npcs :
          /\ i < j
          /\ npcs[i].type = "DRAGON" /\ npcs[j].type = "DRAGON"
          /\ DistLeq(npcs[i], out[1].victim, locals.range)
          /\ DistLeq(npcs[j], out[1].victim, locals.range)

\* C16: no two entities kill each other in a battle pass: the victim of a
\* notification is never the killer of a notification whose victim is the
\* killer of the first.
C16_NoMutualKill ==
    After(W_battle) =>
        \A a, b \in DOMAIN out :
           ~ /\ Living(out[a].victim) = Living(out[b].killer)
             /\ Living(out[b].victim) = Living(out[a].killer)

\* a battle has just let a Dragon kill a Princess; the Dragon was alive
\* then and is what the registry holds now
C16_Witness ==
    /\ After(W_battle)
    /\ Len(out) = 1
    /\ out[1].killer.type = "DRAGON" /\ out[1].killer.alive
    /\ out[1].victim.type = "PRINCESS"
    /\ npcs = <<out[1].killer>>

\* C17: between commands every entity of the registry is alive and has
\* 0 <= x <= 500 and 0 <= y <= 500, so print and save meet no dead entity.
C17_RegistryInvariant ==
    /\ \A i \in DOMAIN npcs : npcs[i].alive /\ InSquare(npcs[i].x, npcs[i].y)
    /\ Len(print(npcs)) = Len(npcs)
    /\ Len(saveLines(npcs)) = Len(npcs)

\* a battle has just removed its dead and left a survivor
C17_Witness ==
    /\ After(W_battle)
    /\ Len(out) >= 1 /\ out[1].ev = "kill"
    /\ Len(npcs) >= 1

\* C18: after battle(r) the registry holds no Dragon and Princess and no
\* Knight and Dragon within distance r of each other, and a battle(r') with
\* r' <= r that follows at once removes nothing and emits nothing.
C18_BattleFixpoint ==
    [][/\ Iteration(W_battle) =>
             \A i, j \in DOMAIN npcs' :
                DistLeq(npcs'[i], npcs'[j], locals'.range) =>
                   /\ ~(npcs'[i].type = "DRAGON" /\ npcs'[j].type = "PRINCESS")
                   /\ ~(npcs'[i].type = "KNIGHT" /\ npcs'[j].type = "DRAGON")
       /\ (After(W_battle) /\ Iteration(W_battle)
              /\ locals'.range <= locals.range)
          => npcs' = npcs /\ out' = <<>>]_vars

\* a battle of range 5 has just killed and left a Knight and a Princess
\* within range of each other
C18_Witness ==
    /\ After(W_battle)
    /\ locals.range = 5 * Scale
    /\ Len(out) >= 1
    /\ \E i, j \in DOMAIN npcs :
          /\ npcs[i].type = "KNIGHT" /\ npcs[j].type = "PRINCESS"
          /\ DistLeq(npcs[i], npcs[j], 5 * Scale)

\* C19: the registry after a battle is a subsequence of the registry
\* before it: nothing is added, the survivors keep their order and their
\* kind, name, x and y.
C19_BattleOnlyRemoves ==
    [][Iteration(W_battle) => IsSubsequence(npcs', npcs)]_vars

\* a battle has just removed one of three entities and left two different
\* ones
C19_Witness ==
    /\ After(W_battle)
    /\ Len(out) = 1
    /\ Len(npcs) = 2
    /\ npcs[1] # npcs[2]

\* C20: every kill of a battle is reported on the console, once, and
\* nothing is ever appended to the kill log file.
C20_ConsoleOnly ==
    [][/\ logFile'.lines = <<>>
       /\ Iteration(W_battle) =>
             /\ Len(out') = Len(npcs) - Len(npcs')
             /\ \A k \in DOMAIN out' : out'[k].ev = "kill"]_vars

\* a battle has just reported two kills and the log file holds nothing
C20_Witness ==
    /\ After(W_battle)
    /\ Len(out) = 2
    /\ logFile.lines = <<>>

====
